---- MODULE Spec2Model ----
(***************************************************************************)
(* Shamir secret sharing over GF(2^8) (crate ssskit): the field, the share *)
(* wire format, the dealer, and the facade operations recover and          *)
(* recover_shares, in both build variants (feature share_x on / off).      *)
(***************************************************************************)
EXTENDS Integers, Sequences, FiniteSets, TLC

(***************************************************************************)
(* Bounds of the model.                                                    *)
(***************************************************************************)
\* largest threshold SecretSharing(k) explored
MaxK == 3
\* longest secret handed to dealer_rng
MaxSecretLen == 2
\* shares the caller takes from the dealer iterator (dealer.take(MaxShares))
MaxShares == 3
\* longest enumerated input collection of recover / recover_shares
MaxLen == 3
\* longest byte slice handed to Share::try_from
MaxBytes == 3

\* bytes the secrets are made of
SecretBytes == {18, 185}
\* bytes the random number generator delivers (0 is the degenerate coefficient)
RngBytes == {0, 83}

(***************************************************************************)
(* Machine integers.                                                       *)
(***************************************************************************)
\* u8::MAX
U8Max == 255

\* `v as u8` of a usize v
AsU8(v) == v % (U8Max + 1)

\* u8 + u8 leaves the range of u8
U8AddOverflows(a, b) == a + b > U8Max

\* u8 + u8 in a build without overflow checks
U8WrappingAdd(a, b) == (a + b) % (U8Max + 1)

(***************************************************************************)
(* GF(2^8) arithmetic, parameterised by the irreducible polynomial.        *)
(***************************************************************************)
\* the polynomial x^8 + x^4 + x^3 + x^2 + 1
POLY == 285

RECURSIVE XorBits(_, _)
XorBits(a, b) ==
    IF a = 0 THEN b
    ELSE IF b = 0 THEN a
    ELSE 2 * XorBits(a \div 2, b \div 2) + ((a + b) % 2)

Bit(v, i) == (v \div (2 ^ i)) % 2

\* carry-less product of two bytes, an intermediate of up to 15 bits
RECURSIVE ClMul(_, _, _)
ClMul(a, b, i) ==
    IF i > 7 THEN 0
    ELSE XorBits(IF Bit(b, i) = 1 THEN a * (2 ^ i) ELSE 0, ClMul(a, b, i + 1))

\* the bit walk from bit i down to bit 8
RECURSIVE Reduce(_, _, _)
Reduce(poly, p, i) ==
    IF i < 8 THEN p % 256
    ELSE Reduce(poly,
                IF Bit(p, i) = 1 THEN XorBits(p, poly * (2 ^ (i - 8))) ELSE p,
                i - 1)

GFMulPoly_walk_from_13(poly, a, b) == Reduce(poly, ClMul(a, b, 0), 13)

GFMulPoly(poly, a, b) == Reduce(poly, ClMul(a, b, 0), 14)

XorTable == [a \in 0..255 |-> [b \in 0..255 |-> XorBits(a, b)]]

MulTable == [a \in 0..255 |-> [b \in 0..255 |-> GFMulPoly(POLY, a, b)]]

\* addition and subtraction of field elements
Add(a, b) == XorTable[a][b]

Sub(a, b) == XorTable[a][b]

Mul(a, b) == MulTable[a][b]

\* a^e by repeated squaring
RECURSIVE Pow(_, _)
Pow(a, e) ==
    IF e = 0 THEN 1
    ELSE LET h == Pow(a, e \div 2)
             sq == Mul(h, h)
         IN  IF e % 2 = 1 THEN Mul(sq, a) ELSE sq

InvTable == [a \in 0..255 |-> Pow(a, 254)]

\* the multiplicative inverse a^254
Inverse(a) == InvTable[a]

\* dividing by zero is an unrecoverable failure
DivPanics(a, b) == b = 0

\* a / b for b # 0
Div(a, b) == Mul(a, Inverse(b))

(***************************************************************************)
(* Option<T>: None is the empty sequence, Some(v) the one-element one.     *)
(***************************************************************************)
None == << >>

Some(v) == << v >>

IsNone(o) == Len(o) = 0

Unwrap(o) == o[1]

(***************************************************************************)
(* Shares and their wire format.  A No-X share is [y |-> bytes], a With-X  *)
(* share [x |-> byte, y |-> bytes].                                        *)
(***************************************************************************)
ShareNoX(y) == [y |-> y]

ShareWithX(x, y) == [x |-> x, y |-> y]

\* Vec::from(&ShareNoX)
VecFromNoX(s) == s.y

\* Vec::from(&ShareWithX)
VecFromWithX(s) == << s.x >> \o s.y

\* Vec::from(&Share) of the build
VecFrom(sx, s) == IF sx THEN VecFromWithX(s) ELSE VecFromNoX(s)

Ok(v) == [tag |-> "Ok", msg |-> "", val |-> v]

Err(m) == [tag |-> "Err", msg |-> m, val |-> << >>]

Panic(m) == [tag |-> "Panic", msg |-> m, val |-> << >>]

TooShort == "A Share must be at least 2 bytes long"

UnequalShareLength == "All shares must have the same length"

InsufficientSharesSecret == "Not enough shares to recover original secret"

InsufficientSharesShares == "Not enough shares to recover original shares"

WrongLength == "provide a shares array of size n; use None for unknown shares"

\* a length floor of one byte instead of two
too_short_below_one(s) == Len(s) < 1

\* the length test of both try_from implementations
too_short(s) == Len(s) < 2

\* ShareNoX::try_from(bytes)
TryFromNoX(s) ==
    IF too_short(s) THEN Err(TooShort) ELSE Ok(ShareNoX(s))

\* ShareWithX::try_from(bytes)
TryFromWithX(s) ==
    IF too_short(s) THEN Err(TooShort)
    ELSE Ok(ShareWithX(s[1], SubSeq(s, 2, Len(s))))

\* Share::try_from of the build
TryFrom(sx, s) == IF sx THEN TryFromWithX(s) ELSE TryFromNoX(s)

(***************************************************************************)
(* math.rs: polynomial sampling, the evaluator, Lagrange interpolation.    *)
(***************************************************************************)
Reverse(q) == [i \in 1..Len(q) |-> q[Len(q) + 1 - i]]

\* random_polynomial(s, k, rng), random_bytes being the k - 1 bytes rng.fill wrote
random_polynomial(s, k, random_bytes) == Reverse(random_bytes) \o << s >>

\* the fold with the step (acc + c) * x
RECURSIVE HornerFrom_add_first(_, _, _, _)
HornerFrom_add_first(p, x, i, acc) ==
    IF i > Len(p) THEN acc
    ELSE HornerFrom_add_first(p, x, i + 1, Mul(Add(acc, p[i]), x))

\* p.iter().fold(GF256(0), |acc, c| acc * x + c), from coefficient i on
RECURSIVE HornerFrom(_, _, _, _)
HornerFrom(p, x, i, acc) ==
    IF i > Len(p) THEN acc
    ELSE HornerFrom(p, x, i + 1, Add(Mul(acc, x), p[i]))

\* the item the evaluator yields for x in the build sx
get_evaluator(sx, polys, x) ==
    LET y == [i \in 1..Len(polys) |-> HornerFrom(polys[i], x, 1, 0)]
    IN  IF sx THEN ShareWithX(x, y) ELSE ShareNoX(y)

\* product over the s_j with s_j.x # s_i.x of s_j.x / (s_j.x - s_i.x), from j on
RECURSIVE BasisAtZero(_, _, _)
BasisAtZero(shares, i, j) ==
    IF j > Len(shares) THEN 1
    ELSE IF shares[j].x # shares[i].x
         THEN Mul(Div(shares[j].x, Sub(shares[j].x, shares[i].x)),
                  BasisAtZero(shares, i, j + 1))
         ELSE BasisAtZero(shares, i, j + 1)

\* sum over the shares s_i of basis_i * s_i.y[s], from i on
RECURSIVE SumAtZero(_, _, _)
SumAtZero(shares, s, i) ==
    IF i > Len(shares) THEN 0
    ELSE Add(Mul(BasisAtZero(shares, i, 1), shares[i].y[s]),
             SumAtZero(shares, s, i + 1))

\* interpolate(shares): the root of the Lagrange polynomial, byte by byte
interpolate(shares) ==
    [s \in 1..Len(shares[1].y) |-> SumAtZero(shares, s, 1)]

\* some division num / denom of interpolate_polynomial has denom = 0
interpolate_polynomial_panics(x_samples, x) ==
    \E i, j \in 1..Len(x_samples) :
        /\ i # j
        /\ DivPanics(Add(x, x_samples[j]), Add(x_samples[i], x_samples[j]))

\* basis = product over j # i of (x + x_j) / (x_i + x_j), from j on
RECURSIVE BasisAt(_, _, _, _)
BasisAt(x_samples, x, i, j) ==
    IF j > Len(x_samples) THEN 1
    ELSE IF i = j THEN BasisAt(x_samples, x, i, j + 1)
         ELSE Mul(Div(Add(x, x_samples[j]), Add(x_samples[i], x_samples[j])),
                  BasisAt(x_samples, x, i, j + 1))

\* result = sum over i of y_samples[i] * basis, from i on
RECURSIVE SumAt(_, _, _, _)
SumAt(x_samples, y_samples, x, i) ==
    IF i > Len(x_samples) THEN 0
    ELSE Add(Mul(y_samples[i], BasisAt(x_samples, x, i, 1)),
             SumAt(x_samples, y_samples, x, i + 1))

\* interpolate_polynomial(x_samples, y_samples, x), no denominator being zero
interpolate_polynomial(x_samples, y_samples, x) ==
    SumAt(x_samples, y_samples, x, 1)

AssertReshare == "atleast 2 shares and atmost 255 shares are required"

DivisionByZero == "division by zero"

AddOverflow == "attempt to add with overflow"

\* the field point reshare interpolates at: GF256(index as u8)
reshare_x(index) == AsU8(index)

\* reshare(shares, index) in the build sx; shares are pairs << x, share >>
reshare(sx, shares, index) ==
    IF ~(Len(shares) >= 2 /\ Len(shares) <= 255) THEN Panic(AssertReshare)
    ELSE LET secret_length == Len(shares[1][2].y)
             x_values == [m \in 1..Len(shares) |-> shares[m][1]]
             x == reshare_x(index)
         IN  IF secret_length > 0 /\ interpolate_polynomial_panics(x_values, x)
             THEN Panic(DivisionByZero)
             ELSE LET new_secret ==
                          [i \in 1..secret_length |->
                              interpolate_polynomial(
                                  x_values,
                                  [m \in 1..Len(shares) |-> shares[m][2].y[i]],
                                  x)]
                  IN  Ok(IF sx THEN ShareWithX(x, new_secret)
                               ELSE ShareNoX(new_secret))

(***************************************************************************)
(* lib.rs: the facade SecretSharing(k).  sx is the feature share_x of the  *)
(* build, oc whether the build checks arithmetic overflow (a debug build   *)
(* panics on it, a release build wraps).                                   *)
(***************************************************************************)
\* `i as u8 + 1` panics
coord_panics(sx, oc, i) == ~sx /\ oc /\ U8AddOverflows(AsU8(i), 1)

\* a build that takes the position for x even when the share carries one
share_coord_positional(sx, share, i) == U8WrappingAdd(AsU8(i), 1)

\* the x recorded for the present share at enumeration index i (0-based)
share_coord(sx, share, i) ==
    IF sx THEN share.x ELSE U8WrappingAdd(AsU8(i), 1)

\* Some(share.y.len()) != share_length, share_length being set when it was None
length_mismatch(share, share_length) ==
    ~IsNone(share_length) /\ Len(share.y) # Unwrap(share_length)

\* the threshold test one off: k - 1 distinct shares pass
insufficient_one_off(keys, k) == keys = {} \/ Cardinality(keys) < k - 1

\* keys.is_empty() || keys.len() < self.0
insufficient(keys, k) == keys = {} \/ Cardinality(keys) < k

\* the enumeration indices (0-based) from i on whose slot holds a share
PresentFrom(shares, i) ==
    {j \in i..(Len(shares) - 1) : ~IsNone(shares[j + 1])}

\* the first of them: the loop `continue`s over the absent slots before it
NextPresent(shares, i) ==
    CHOOSE j \in PresentFrom(shares, i) : \A m \in PresentFrom(shares, i) : j <= m

\* the loop of recover from enumeration index i on
RECURSIVE recover_scan(_, _, _, _, _, _, _)
recover_scan(sx, oc, shares, i, share_length, keys, values) ==
    IF PresentFrom(shares, i) = {}
    THEN [tag |-> "Scanned", msg |-> "", keys |-> keys, values |-> values]
    ELSE LET j == NextPresent(shares, i)
             share == Unwrap(shares[j + 1])
         IN  IF length_mismatch(share, share_length) THEN Err(UnequalShareLength)
             ELSE IF coord_panics(sx, oc, j) THEN Panic(AddOverflow)
             ELSE recover_scan(sx, oc, shares, j + 1, Some(Len(share.y)),
                               keys \cup {VecFrom(sx, share)},
                               Append(values,
                                      ShareWithX(share_coord(sx, share, j),
                                                 share.y)))

\* SecretSharing(k).recover(shares)
recover(sx, oc, k, shares) ==
    LET r == recover_scan(sx, oc, shares, 0, None, {}, << >>)
    IN  IF r.tag # "Scanned" THEN r
        ELSE IF insufficient(r.keys, k) THEN Err(InsufficientSharesSecret)
        ELSE Ok(interpolate(r.values))

\* the loop of recover_shares from enumeration index i on; count grows by one
\* for every slot visited, absent or present
RECURSIVE recover_shares_scan(_, _, _, _, _, _, _, _)
recover_shares_scan(sx, oc, shares, i, share_length, keys, values, count) ==
    IF PresentFrom(shares, i) = {}
    THEN [tag |-> "Scanned", msg |-> "", keys |-> keys, values |-> values,
          count |-> count + (Len(shares) - i)]
    ELSE LET j == NextPresent(shares, i)
             share == Unwrap(shares[j + 1])
         IN  IF length_mismatch(share, share_length) THEN Err(UnequalShareLength)
             ELSE IF coord_panics(sx, oc, j) THEN Panic(AddOverflow)
             ELSE recover_shares_scan(sx, oc, shares, j + 1, Some(Len(share.y)),
                                      keys \cup {VecFrom(sx, share)},
                                      Append(values,
                                             << share_coord(sx, share, j), share >>),
                                      count + (j - i) + 1)

\* values.iter().map(|(_, share)| share.clone()).cycle().take(n).collect()
cycle_take(values, n) ==
    [t \in 1..n |-> values[((t - 1) % Len(values)) + 1][2]]

\* (1..=n).map(|i| math::reshare(&values, i)).collect()
reshare_all(sx, values, n) ==
    LET out == [t \in 1..n |-> reshare(sx, values, t)]
        bad == {t \in 1..n : out[t].tag = "Panic"}
    IN  IF bad # {} THEN out[CHOOSE t \in bad : \A u \in bad : t <= u]
        ELSE Ok([t \in 1..n |-> out[t].val])

\* SecretSharing(k).recover_shares(shares, n)
recover_shares(sx, oc, k, shares, n) ==
    LET r == recover_shares_scan(sx, oc, shares, 0, None, {}, << >>, 0)
    IN  IF r.tag # "Scanned" THEN r
        ELSE IF r.count # n THEN Err(WrongLength)
        ELSE IF insufficient(r.keys, k) THEN Err(InsufficientSharesShares)
        ELSE IF k = 1 THEN Ok(cycle_take(r.values, n))
        ELSE reshare_all(sx, r.values, n)

\* the x-coordinates of a sequence of points
XsOfShares(values) == [m \in 1..Len(values) |-> values[m].x]

XsOfPairs(values) == [m \in 1..Len(values) |-> values[m][1]]

\* the x-coordinates recover hands to math::interpolate, None when the call
\* ends before
recover_handed(sx, oc, k, shares) ==
    LET r == recover_scan(sx, oc, shares, 0, None, {}, << >>)
    IN  IF r.tag = "Scanned" /\ ~insufficient(r.keys, k)
        THEN Some(XsOfShares(r.values))
        ELSE None

\* the x-coordinates recover_shares hands to math::reshare, None when the call
\* ends before or replicates the shares (k = 1)
recover_shares_handed(sx, oc, k, shares, n) ==
    LET r == recover_shares_scan(sx, oc, shares, 0, None, {}, << >>, 0)
    IN  IF /\ r.tag = "Scanned"
           /\ r.count = n
           /\ ~insufficient(r.keys, k)
           /\ k # 1
           /\ n >= 1
        THEN Some(XsOfPairs(r.values))
        ELSE None

\* dealer_rng(secret, rng): one polynomial per secret byte; random[i] are the
\* k - 1 bytes the generator wrote for byte i
dealer_rng(k, s, random) ==
    [i \in 1..Len(s) |-> random_polynomial(s[i], k, random[i])]

(***************************************************************************)
(* The state: the build, the facade, one dealer iterator, and the last     *)
(* call with its arguments and its outcome.                                *)
(***************************************************************************)
VARIABLES
    share_x,    \* feature share_x of the build
    threshold,  \* SecretSharing.0
    secret,     \* the secret handed to dealer_rng
    polys,      \* the polynomials the dealer iterator owns
    next_x,     \* the x the iterator yields next; 0: no dealer yet
    dealt,      \* the shares the caller has taken from the iterator
    op,         \* the last call
    shares,     \* its collection of Option<Share>
    n,          \* its n (recover_shares)
    bytes,      \* its byte slice (try_from)
    result,     \* its outcome
    handed      \* the x-coordinates it handed to interpolation, if it got there

vars == << share_x, threshold, secret, polys, next_x, dealt, op, shares, n,
           bytes, result, handed >>

NoResult == [tag |-> "None", msg |-> "", val |-> << >>]

Init ==
    /\ share_x \in BOOLEAN
    /\ threshold \in 1..MaxK
    /\ secret = << >>
    /\ polys = << >>
    /\ next_x = 0
    /\ dealt = << >>
    /\ op = "new"
    /\ shares = << >>
    /\ n = 0
    /\ bytes = << >>
    /\ result = NoResult
    /\ handed = None

Secrets == UNION {[1..l -> SecretBytes] : l \in 1..MaxSecretLen}

\* The facade calls change nothing but the record of the last call, so a
\* behaviour takes its shares and then makes one call: a later call reaches
\* no state a first does not.
NoCallYet == op \in {"new", "dealer_rng", "next"}

\* the caller creates the dealer
DealerRng ==
    /\ op = "new"
    /\ next_x = 0
    /\ \E s \in Secrets :
         \E random \in [1..Len(s) -> [1..(threshold - 1) -> RngBytes]] :
            /\ secret' = s
            /\ polys' = dealer_rng(threshold, s, random)
    /\ next_x' = 1
    /\ op' = "dealer_rng"
    /\ result' = NoResult
    /\ UNCHANGED << share_x, threshold, dealt, shares, n, bytes, handed >>

\* the caller takes the next share: (1..=u8::MAX).map(GF256).map(..).next()
DealerNext ==
    /\ NoCallYet
    /\ next_x >= 1
    /\ next_x <= U8Max
    /\ Len(dealt) < MaxShares
    /\ LET share == get_evaluator(share_x, polys, next_x)
       IN  /\ dealt' = Append(dealt, share)
           /\ result' = Ok(<< share >>)
    /\ next_x' = next_x + 1
    /\ op' = "next"
    /\ UNCHANGED << share_x, threshold, secret, polys, shares, n, bytes, handed >>

\* the collections a caller forms from the shares of pool and absent slots
Collections(pool) ==
    UNION {[1..l -> {None} \cup {Some(pool[i]) : i \in 1..Len(pool)}] :
              l \in 0..MaxLen}

CallRecover(c) ==
    /\ \E oc \in BOOLEAN :
         /\ result' = recover(share_x, oc, threshold, c)
         /\ handed' = recover_handed(share_x, oc, threshold, c)
    /\ shares' = c
    /\ op' = "recover"
    /\ UNCHANGED << share_x, threshold, secret, polys, next_x, dealt, n, bytes >>

CallRecoverShares(c, m) ==
    /\ \E oc \in BOOLEAN :
         /\ result' = recover_shares(share_x, oc, threshold, c, m)
         /\ handed' = recover_shares_handed(share_x, oc, threshold, c, m)
    /\ shares' = c
    /\ n' = m
    /\ op' = "recover_shares"
    /\ UNCHANGED << share_x, threshold, secret, polys, next_x, dealt, bytes >>

\* recover on a collection of dealt shares
Recover ==
    /\ NoCallYet
    /\ \E c \in Collections(dealt) : CallRecover(c)

\* recover_shares on a collection of dealt shares
RecoverShares ==
    /\ NoCallYet
    /\ \E c \in Collections(dealt) : \E m \in 0..MaxLen : CallRecoverShares(c, m)

Next == DealerRng \/ DealerNext \/ Recover \/ RecoverShares

Spec == Init /\ [][Next]_vars

(***************************************************************************)
(* The facade on collections of any shares: arbitrary x and y, duplicates, *)
(* unequal lengths, and collections around 256 positions, where the        *)
(* position of a share leaves u8.                                          *)
(***************************************************************************)
\* x-coordinates and y-vectors of the shares a caller makes up
ArbXs == {0, 1, 2}

ArbYs == {<< 1 >>, << 2 >>, << 1, 2 >>}

ArbShares(sx) ==
    IF sx THEN {ShareWithX(x, y) : x \in ArbXs, y \in ArbYs}
    ELSE {ShareNoX(y) : y \in ArbYs}

ArbCollections(sx) ==
    UNION {[1..l -> {None} \cup {Some(sh) : sh \in ArbShares(sx)}] :
              l \in 0..MaxLen}

\* lengths and 1-based positions around the end of u8
LongLens == {U8Max, U8Max + 1, U8Max + 2}

LongPositions == {1, U8Max + 1, U8Max + 2}

LongShares(sx) ==
    IF sx THEN {ShareWithX(x, y) : x \in {1, 2}, y \in {<< 1 >>, << 1, 2 >>}}
    ELSE {ShareNoX(y) : y \in {<< 1 >>, << 1, 2 >>}}

\* collections of a length in LongLens, absent but at positions of
\* LongPositions
LongCollections(sx) ==
    UNION {
        {[i \in 1..l |-> IF i \in DOMAIN f THEN Some(f[i]) ELSE None] :
            f \in UNION {[P -> LongShares(sx)] :
                            P \in SUBSET (LongPositions \cap 1..l)}} :
        l \in LongLens}

\* recover on a collection of any shares
RecoverAny ==
    /\ op = "new"
    /\ \E c \in ArbCollections(share_x) : CallRecover(c)

\* recover_shares on a collection of any shares
RecoverSharesAny ==
    /\ op = "new"
    /\ \E c \in ArbCollections(share_x) :
         \E m \in 0..MaxLen : CallRecoverShares(c, m)

\* recover on a long collection
RecoverLong ==
    /\ op = "new"
    /\ \E c \in LongCollections(share_x) : CallRecover(c)

\* recover_shares on a long collection, n its length or a small number
RecoverSharesLong ==
    /\ op = "new"
    /\ \E c \in LongCollections(share_x) :
         \E m \in {MaxLen, Len(c)} : CallRecoverShares(c, m)

NextFacade == RecoverAny \/ RecoverSharesAny

\* the facade on the enumerated collections
SpecFacade == Init /\ [][NextFacade]_vars

NextFacadeLong ==
    RecoverAny \/ RecoverSharesAny \/ RecoverLong \/ RecoverSharesLong

\* the facade on the enumerated and on the long collections
SpecFacadeLong == Init /\ [][NextFacadeLong]_vars

(***************************************************************************)
(* The wire format: decoding byte slices.                                  *)
(***************************************************************************)
WireBytes == {0, 1, 255}

ByteSlices == UNION {[1..l -> WireBytes] : l \in 0..MaxBytes}

\* Share::try_from(bytes)
TryFromBytes ==
    /\ op = "new"
    /\ \E b \in ByteSlices :
         /\ bytes' = b
         /\ result' = TryFrom(share_x, b)
    /\ op' = "try_from"
    /\ UNCHANGED << share_x, threshold, secret, polys, next_x, dealt, shares, n,
                    handed >>

\* Vec::from(&share) of a decoded share
VecFromShare ==
    /\ op = "try_from"
    /\ result.tag = "Ok"
    /\ result' = Ok(VecFrom(share_x, result.val))
    /\ shares' = << Some(result.val) >>
    /\ op' = "vec_from"
    /\ UNCHANGED << share_x, threshold, secret, polys, next_x, dealt, n, bytes,
                    handed >>

NextShare == TryFromBytes \/ VecFromShare

SpecShare == Init /\ [][NextShare]_vars

(***************************************************************************)
(* The wire format: encoding a share and decoding its bytes again.         *)
(***************************************************************************)
\* the shares of the build sx with 1..MaxBytes y bytes
WireShares(sx) ==
    LET ys == UNION {[1..l -> WireBytes] : l \in 1..MaxBytes}
    IN  IF sx THEN {ShareWithX(x, y) : x \in WireBytes, y \in ys}
        ELSE {ShareNoX(y) : y \in ys}

\* Vec::from(&share) of any share with at least one y byte
VecFromAny ==
    /\ op = "new"
    /\ \E s \in WireShares(share_x) :
         /\ shares' = << Some(s) >>
         /\ bytes' = VecFrom(share_x, s)
         /\ result' = Ok(VecFrom(share_x, s))
    /\ op' = "serialize"
    /\ UNCHANGED << share_x, threshold, secret, polys, next_x, dealt, n, handed >>

\* Share::try_from on the bytes Vec::from produced
TryFromSerialized ==
    /\ op = "serialize"
    /\ result' = TryFrom(share_x, bytes)
    /\ op' = "deserialize"
    /\ UNCHANGED << share_x, threshold, secret, polys, next_x, dealt, shares, n,
                    bytes, handed >>

NextWire == VecFromAny \/ TryFromSerialized

SpecWire == Init /\ [][NextWire]_vars

(***************************************************************************)
(* The dealer iterator driven to its end: (1..=u8::MAX).map(GF256).map(..) *)
(***************************************************************************)
\* Iterator::next returned None
NoItem == [tag |-> "None", msg |-> "exhausted", val |-> << >>]

evaluator_exhausted_exclusive(x) == x >= U8Max

\* the range 1..=u8::MAX has no item left when the next x is past u8::MAX
evaluator_exhausted(x) == x > U8Max

\* the caller calls next() on the iterator and keeps what it yields
DealerTake ==
    /\ op \in {"dealer_rng", "next", "next_none"}
    /\ next_x >= 1
    /\ IF evaluator_exhausted(next_x)
       THEN /\ result' = NoItem
            /\ op' = "next_none"
            /\ UNCHANGED << dealt, next_x >>
       ELSE LET share == get_evaluator(share_x, polys, next_x)
            IN  /\ dealt' = Append(dealt, share)
                /\ result' = Ok(<< share >>)
                /\ next_x' = next_x + 1
                /\ op' = "next"
    /\ UNCHANGED << share_x, threshold, secret, polys, shares, n, bytes, handed >>

\* the caller creates the dealer; the generator writes the same k - 1 bytes
\* for every secret byte
DealerRngRepeating ==
    /\ op = "new"
    /\ next_x = 0
    /\ \E s \in Secrets :
         \E r \in [1..(threshold - 1) -> RngBytes] :
            /\ secret' = s
            /\ polys' = dealer_rng(threshold, s, [i \in 1..Len(s) |-> r])
    /\ next_x' = 1
    /\ op' = "dealer_rng"
    /\ result' = NoResult
    /\ UNCHANGED << share_x, threshold, dealt, shares, n, bytes, handed >>

NextDealer == DealerRngRepeating \/ DealerTake

SpecDealer == Init /\ [][NextDealer]_vars

(***************************************************************************)
(* The field under each of its polynomials: a product, then the quotient   *)
(* of the product by the second factor.                                    *)
(***************************************************************************)
\* the 30 irreducible polynomials of degree 8 over GF(2)
PRIMITIVE_POLYS ==
    {283, 285, 299, 301, 313, 319, 333, 351, 355, 357, 361, 369, 375, 379, 391,
     395, 397, 415, 419, 425, 433, 445, 451, 463, 471, 477, 487, 499, 501, 505}

\* a^e under poly by repeated squaring
RECURSIVE PowPoly(_, _, _)
PowPoly(poly, a, e) ==
    IF e = 0 THEN 1
    ELSE CHOOSE r \in {IF e % 2 = 1 THEN GFMulPoly(poly, sq, a) ELSE sq :
                          sq \in {GFMulPoly(poly, h, h) :
                                     h \in {PowPoly(poly, a, e \div 2)}}} : TRUE

\* a / b under poly: a times b^254
DivPoly(poly, a, b) ==
    IF DivPanics(a, b) THEN Panic(DivisionByZero)
    ELSE Ok(<< GFMulPoly(poly, a, PowPoly(poly, b, 254)) >>)

\* the bytes multiplied and divided
FieldBytes == {0, 1, 2, 3, 4, 8, 16, 29, 32, 64, 83, 128, 142, 229, 254, 255}

\* GF256<poly>(a) * GF256<poly>(b); n is the polynomial, bytes the factors
FieldMul ==
    /\ op = "new"
    /\ \E poly \in PRIMITIVE_POLYS : \E a, b \in FieldBytes :
         /\ n' = poly
         /\ bytes' = << a, b >>
         /\ result' = Ok(<< GFMulPoly(poly, a, b) >>)
    /\ op' = "mul"
    /\ UNCHANGED << share_x, threshold, secret, polys, next_x, dealt, shares,
                    handed >>

\* the product divided by the second factor
FieldDiv ==
    /\ op = "mul"
    /\ result' = DivPoly(n, result.val[1], bytes[2])
    /\ op' = "div"
    /\ UNCHANGED << share_x, threshold, secret, polys, next_x, dealt, shares, n,
                    bytes, handed >>

NextField == FieldMul \/ FieldDiv

SpecField == Init /\ [][NextField]_vars

(***************************************************************************)
(* The evaluator on polynomials of the caller's choice.                    *)
(***************************************************************************)
\* coefficient sequences, highest degree first; a polynomial of k
\* coefficients is the first k of one of them
EvalBases ==
    {<< 3, 2, 5, 7, 11 >>, << 0, 83, 18, 1, 2 >>, << 255, 254, 1, 0, 128 >>,
     << 5, 0, 0, 29, 1 >>}

EvalPolys(k) == {SubSeq(b, 1, k) : b \in EvalBases}

\* get_evaluator(polys): threshold coefficients per polynomial
GetEvaluator ==
    /\ op = "new"
    /\ \E l \in 1..MaxSecretLen :
         \E ps \in [1..l -> EvalPolys(threshold)] : polys' = ps
    /\ next_x' = 1
    /\ op' = "get_evaluator"
    /\ UNCHANGED << share_x, threshold, secret, dealt, shares, n, bytes, result,
                    handed >>

\* next() on the evaluator; the caller keeps the last item only
EvaluatorNext ==
    /\ op \in {"get_evaluator", "evaluator_next"}
    /\ next_x >= 1
    /\ ~evaluator_exhausted(next_x)
    /\ LET share == get_evaluator(share_x, polys, next_x)
       IN  /\ dealt' = << share >>
           /\ result' = Ok(<< share >>)
    /\ next_x' = next_x + 1
    /\ op' = "evaluator_next"
    /\ UNCHANGED << share_x, threshold, secret, polys, shares, n, bytes, handed >>

NextEvaluator == GetEvaluator \/ EvaluatorNext

SpecEvaluator == Init /\ [][NextEvaluator]_vars

(***************************************************************************)
(* Vocabulary of the properties.                                           *)
(***************************************************************************)
\* the 0-based enumeration indices of the present shares of a collection
Present(c) == {i \in 1..Len(c) : ~IsNone(c[i])}

\* the canonical byte serializations of the present shares
DistinctKeys(c) == {VecFrom(share_x, Unwrap(c[i])) : i \in Present(c)}

\* c holds k of the dealt shares and nothing else: With-X the shares as
\* emitted, in any order; No-X each share at its dealt position, absent slots
\* elsewhere
KOfDealt(c, k) ==
    /\ Cardinality(Present(c)) = k
    /\ IF share_x
       THEN /\ Present(c) = 1..Len(c)
            /\ \A i \in 1..Len(c) : \E d \in 1..Len(dealt) : c[i] = Some(dealt[d])
            /\ \A i, j \in 1..Len(c) : i # j => c[i] # c[j]
       ELSE /\ Len(c) <= Len(dealt)
            /\ \A i \in Present(c) : c[i] = Some(dealt[i])

\* C1: dealing a secret with threshold k and recovering from any k of the
\* emitted shares (With-X as emitted, No-X at their dealt positions) returns
\* Ok(secret), whatever coefficients the generator supplied.
C1_DealRecoverRoundTrip ==
    (op = "recover" /\ KOfDealt(shares, threshold)) => result = Ok(secret)

\* c holds k of the dealt shares and absent slots: With-X anywhere, No-X each
\* share at its dealt position
KOfDealtPadded(c, k) ==
    /\ Cardinality(Present(c)) = k
    /\ IF share_x
       THEN /\ \A i \in Present(c) : \E d \in 1..Len(dealt) : c[i] = Some(dealt[d])
            /\ \A i, j \in Present(c) : i # j => c[i] # c[j]
       ELSE \A i \in Present(c) : i <= Len(dealt) /\ c[i] = Some(dealt[i])

\* the collection holding the shares of P, each at its own index of q
Positional(q, P) == [i \in 1..Len(q) |-> IF i \in P THEN Some(q[i]) ELSE None]

\* C2: recover_shares on k shares of one dealing and n >= k returns n shares,
\* and recover on any k of them, each at its returned index, returns
\* Ok(secret).
C2_ResharedSharesRecover ==
    (op = "recover_shares" /\ KOfDealtPadded(shares, threshold) /\ n = Len(shares))
    => /\ result.tag = "Ok"
       /\ Len(result.val) = n
       /\ \A P \in SUBSET (1..n) :
            Cardinality(P) = threshold
            => \A oc \in BOOLEAN :
                 recover(share_x, oc, threshold, Positional(result.val, P))
                 = Ok(secret)

\* c holds at least k of the first Len(c) dealt shares, each at its own
\* position, and absent slots elsewhere
AtOwnPositions(c, k) ==
    /\ Len(c) <= Len(dealt)
    /\ Cardinality(Present(c)) >= k
    /\ \A i \in Present(c) : c[i] = Some(dealt[i])

\* C3: for k >= 2, recover_shares on at least k of the first n dealt shares at
\* their own positions returns exactly the first n dealt shares: every
\* position, present or absent in the input, gets the dealt y (and x).
C3_ReshareReproducesDealt ==
    (/\ op = "recover_shares"
     /\ threshold >= 2
     /\ n = Len(shares)
     /\ AtOwnPositions(shares, threshold))
    => result = Ok(SubSeq(dealt, 1, n))

\* the last call is a facade call
FacadeCall == op \in {"recover", "recover_shares"}

\* the InsufficientShares error of the last call
InsufficientShares ==
    IF op = "recover" THEN Err(InsufficientSharesSecret)
    ELSE Err(InsufficientSharesShares)

\* all present shares have the y-length of the first present share
EqualLengths(c) ==
    \A i, j \in Present(c) : Len(Unwrap(c[i]).y) = Len(Unwrap(c[j]).y)

Permuted(c, f) == [i \in 1..Len(c) |-> c[f[i]]]

\* at least k distinct shares of the dealing: With-X anywhere in the
\* collection, No-X each at its dealt position
ValidRecoveryInput(c) ==
    /\ Cardinality(DistinctKeys(c)) >= threshold
    /\ IF share_x
       THEN \A i \in Present(c) : \E d \in 1..Len(dealt) : c[i] = Some(dealt[d])
       ELSE \A i \in Present(c) : i <= Len(dealt) /\ c[i] = Some(dealt[i])

\* recover gives the last call's outcome on every rearrangement of its input
OrderIndependent ==
    \A f \in Permutations(1..Len(shares)) :
        \A oc \in BOOLEAN :
            recover(share_x, oc, threshold, Permuted(shares, f)) = result

\* C5 as stated: recover returns the same secret on every permutation of a
\* valid recovery input.
C5_OrderIndependence ==
    (op = "recover" /\ ValidRecoveryInput(shares)) => OrderIndependent

\* C5 as amended: in the With-X build recover returns the same secret on every
\* permutation of a valid recovery input (in the No-X build the position of a
\* share is its x, so a permutation changes the points).
C5_OrderIndependenceWithX ==
    (share_x /\ op = "recover" /\ ValidRecoveryInput(shares)) => OrderIndependent

\* C5 witness: a With-X recovery of the secret from shares given out of order
C5_Witness ==
    /\ share_x
    /\ op = "recover"
    /\ ValidRecoveryInput(shares)
    /\ Len(shares) = 3
    /\ Present(shares) = 1..3
    /\ Unwrap(shares[1]).x > Unwrap(shares[2]).x
    /\ threshold = 3
    /\ polys[1][1] # 0
    /\ result = Ok(secret)

\* the x-coordinates of a sequence are pairwise distinct
PairwiseDistinct(xs) == \A i, j \in 1..Len(xs) : i # j => xs[i] # xs[j]

\* two present shares of the collection carry the same x
SameXPresent(c) ==
    share_x /\ \E i, j \in Present(c) : i # j /\ Unwrap(c[i]).x = Unwrap(c[j]).x

\* C6: whenever recover or recover_shares reaches interpolation, the
\* x-coordinates handed to it are pairwise distinct, and an input in which two
\* present shares carry the same x is answered with an error.
C6_DistinctXAtInterpolation ==
    FacadeCall
    => /\ ~IsNone(handed) => PairwiseDistinct(Unwrap(handed))
       /\ SameXPresent(shares) => (result.tag = "Err" /\ IsNone(handed))

\* C7: for n <= 255 and any collection, recover and recover_shares end with an
\* Ok or an Err value, never with an unrecoverable failure.
C7_FacadeNeverAborts ==
    (FacadeCall /\ (op = "recover_shares" => n <= U8Max))
    => result.tag \in {"Ok", "Err"}

\* C8: a present share whose y-length differs from that of the first present
\* share makes recover and recover_shares return UnequalShareLength, whatever
\* the number of distinct shares and whatever n.
C8_MismatchedLengthRejected ==
    (FacadeCall /\ ~EqualLengths(shares)) => result = Err(UnequalShareLength)

\* C9: with equal y-lengths, recover_shares returns WrongLength exactly when
\* the collection does not have n positions, and a successful call returns
\* exactly n shares.
C9_WrongLengthIffNotN ==
    (op = "recover_shares" /\ EqualLengths(shares))
    => /\ (result = Err(WrongLength)) <=> (Len(shares) # n)
       /\ result.tag = "Ok" => Len(result.val) = n

\* C10: Share::try_from fails with TooShort exactly on slices of fewer than 2
\* bytes; any longer slice decodes, With-X to x = byte 0 and y = the rest,
\* No-X to y = all bytes, x = 0 included.
C10_TryFromLengthFloor ==
    op = "try_from"
    => IF Len(bytes) < 2 THEN result = Err(TooShort)
       ELSE /\ result.tag = "Ok"
            /\ IF share_x
               THEN /\ result.val.x = bytes[1]
                    /\ result.val.y = Tail(bytes)
               ELSE result.val.y = bytes

\* C10 witness: a two-byte slice with x = 0 decoded in the With-X build
C10_Witness ==
    /\ op = "try_from"
    /\ share_x
    /\ bytes = << 0, 1 >>
    /\ result = Ok(ShareWithX(0, << 1 >>))

\* C11: serializing a share with at least one y byte with Vec::from and
\* decoding the bytes with try_from restores the share, in both variants; the
\* serialization has 1 + |y| bytes With-X and |y| bytes No-X.
C11_SerializationRoundTrip ==
    op = "deserialize"
    => /\ result = Ok(Unwrap(shares[1]))
       /\ Len(bytes) = (IF share_x THEN 1 ELSE 0) + Len(Unwrap(shares[1]).y)

\* the polynomials are the secret's: one per byte, k coefficients each, the
\* constant term the secret byte
PolysOfSecret ==
    /\ Len(polys) = Len(secret)
    /\ \A i \in 1..Len(polys) :
         Len(polys[i]) = threshold /\ polys[i][threshold] = secret[i]

FirstOccurrences(c) ==
    {i \in Present(c) : \A j \in Present(c) : j < i => c[j] # c[i]}

\* the distinct present shares of c, in the order of their first occurrence
DistinctShares(c) ==
    LET F == FirstOccurrences(c)
    IN  [t \in 1..Cardinality(F) |->
            Unwrap(c[CHOOSE i \in F : Cardinality({j \in F : j < i}) = t - 1])]

\* q repeated cyclically to length m
Cyclic(q, m) == [t \in 1..m |-> q[((t - 1) % Len(q)) + 1]]

\* C13: with k = 1, recover_shares on a collection of n positions with at
\* least one present share (equal y-lengths) returns the n shares got by
\* repeating the distinct collected shares cyclically; with one present share
\* every returned share is that share.
C13_ThresholdOneCycles ==
    (/\ op = "recover_shares"
     /\ threshold = 1
     /\ Len(shares) = n
     /\ Present(shares) # {}
     /\ EqualLengths(shares))
    => /\ result = Ok(Cyclic(DistinctShares(shares), n))
       /\ Cardinality(Present(shares)) = 1
          => \A t \in 1..n :
               result.val[t] = Unwrap(shares[CHOOSE i \in Present(shares) : TRUE])

\* C14: under each of the 30 irreducible polynomials, a product of two bytes
\* fits in 8 bits, and dividing the product a * b by b # 0 (multiplying by
\* b^254) gives a.
C14_DivisionInvertsMultiplication ==
    /\ op = "mul" => result.val[1] \in 0..255
    /\ (op = "div" /\ bytes[2] # 0) => result = Ok(<< bytes[1] >>)

\* C14 witness: (128 * 128) / 128 = 128 under the polynomial 0x11B, the
\* carry-less product having bit 14 set
C14_Witness ==
    /\ op = "div"
    /\ n = 283
    /\ bytes = << 128, 128 >>
    /\ result = Ok(<< 128 >>)

\* the shares of c at the positions D are shares of the dealing: With-X any
\* dealt shares, No-X each at its dealt position
OfDealing(c, D) ==
    IF share_x
    THEN \A i \in D : \E d \in 1..Len(dealt) : c[i] = Some(dealt[d])
    ELSE \A i \in D : i <= Len(dealt) /\ c[i] = Some(dealt[i])

\* c holds at least k pairwise distinct shares of the dealing and, besides
\* them, one or more byte-identical copies of some of them
WithRepeatedCopies(c, k) ==
    \E D \in SUBSET Present(c) :
        /\ D # Present(c)
        /\ Cardinality(D) >= k
        /\ OfDealing(c, D)
        /\ \A i, j \in D : i # j => c[i] # c[j]
        /\ \A j \in Present(c) \ D : \E i \in D : c[j] = c[i]

\* C15: recover on at least k distinct shares of one dealing plus repeated
\* byte-identical copies of some of them returns Ok(secret).
C15_DuplicatesKeepRecovery ==
    (op = "recover" /\ WithRepeatedCopies(shares, threshold))
    => result = Ok(secret)

\* the 1-based positions of the present shares of c, in increasing order
PresentPositions(c) ==
    [t \in 1..Cardinality(Present(c)) |->
        CHOOSE i \in Present(c) : Cardinality({j \in Present(c) : j < i}) = t - 1]

\* the input of the last call passes every check before interpolation
PassesChecks ==
    /\ FacadeCall
    /\ EqualLengths(shares)
    /\ Present(shares) # {}
    /\ Cardinality(DistinctKeys(shares)) >= threshold
    /\ op = "recover_shares" => (Len(shares) = n /\ threshold >= 2)

\* C16: in the No-X build recover and recover_shares give the present share
\* at 0-based index i the x-coordinate i + 1, absent slots counted; in a
\* collection of at most 255 positions these x are nonzero and pairwise
\* distinct.
C16_NoXPositionIsX ==
    (~share_x /\ PassesChecks)
    => /\ ~IsNone(handed)
       /\ Unwrap(handed) = PresentPositions(shares)
       /\ Len(shares) <= U8Max
          => /\ \A t \in 1..Len(Unwrap(handed)) : Unwrap(handed)[t] # 0
             /\ PairwiseDistinct(Unwrap(handed))

\* the value at x of the polynomial p (highest degree first): the sum of the
\* monomials p[j] * x^(Len(p) - j), from coefficient j on
RECURSIVE PolyValueFrom(_, _, _)
PolyValueFrom(p, x, j) ==
    IF j > Len(p) THEN 0
    ELSE Add(Mul(p[j], Pow(x, Len(p) - j)), PolyValueFrom(p, x, j + 1))

\* C17: the share the evaluator emits for x in 1..255 has one y per
\* polynomial, in order, each the value of its polynomial at x (and the x
\* itself With-X); under POLY 0x11D, [[3, 2, 5]] gives y = [4] at x = 1 and
\* y = [13] at x = 2.
C17_EvaluatorIsPolynomialValue ==
    op = "evaluator_next"
    => LET x == next_x - 1
           share == dealt[1]
       IN  /\ x \in 1..U8Max
           /\ Len(share.y) = Len(polys)
           /\ \A i \in 1..Len(polys) : share.y[i] = PolyValueFrom(polys[i], x, 1)
           /\ share_x => share.x = x
           /\ (polys = << << 3, 2, 5 >> >> /\ x = 1) => share.y = << 4 >>
           /\ (polys = << << 3, 2, 5 >> >> /\ x = 2) => share.y = << 13 >>

\* C17 witness: the evaluator of [[3, 2, 5]] emitting y = [13] at x = 2
C17_Witness ==
    /\ op = "evaluator_next"
    /\ polys = << << 3, 2, 5 >> >>
    /\ next_x = 3
    /\ result.val[1].y = << 13 >>

\* C18: for every n recover_shares accepts, n >= 256 included, the share
\* returned at each position t in 1..n is the interpolation at the field point
\* x = t, which is never 0: the position converted to 8 bits is not the
\* reconstruction point (and With-X the returned share carries x = t).
C18_ReshareTargetNeverZero ==
    (op = "recover_shares" /\ threshold >= 2 /\ result.tag = "Ok")
    => \A t \in 1..n :
         /\ reshare_x(t) # 0
         /\ share_x => (result.val[t].x = t /\ result.val[t].x # 0)

====
